---- MODULE Spec2Model ----
(***************************************************************************)
(* State-machine model of data_integration_and_web_scraping.py: the        *)
(* notebook's cells of Task 1 (Parts 0 to 8) run once, in order.  A cell   *)
(* is one action; the two loops whose iterations matter to the properties  *)
(* (the PDF pages, and the properties in the travel-time loop) take one    *)
(* step per iteration.  The input files are chosen in the initial state.   *)
(*                                                                         *)
(* Units.  Coordinates are whole degrees.  An angular distance is kept in  *)
(* units of 0.00001 radian, so the initial threshold min_dist = 1 is       *)
(* 100000, and a distance in kilometres is kept in units of 0.00001 km.    *)
(* A time total is kept in seconds (the code keeps minutes as a float).    *)
(***************************************************************************)
EXTENDS Integers, Sequences, FiniteSets, TLC

(***************************************************************************)
(* Python values.  Several columns hold strings and numbers side by side   *)
(* (the default "0" and a numeric stop id, the default "-1" and a rounded  *)
(* average), and the code compares them through str().                     *)
(***************************************************************************)
PyStr(x) == [t |-> "str", s |-> x, n |-> 0]
PyInt(x) == [t |-> "int", s |-> "", n |-> x]

Digits == <<"0", "1", "2", "3", "4", "5", "6", "7", "8", "9">>

RECURSIVE NatToStr(_)
NatToStr(x) == IF x < 10 THEN Digits[x + 1]
               ELSE NatToStr(x \div 10) \o Digits[(x % 10) + 1]

\* str() of an int
IntToStr(x) == IF x < 0 THEN "-" \o NatToStr(0 - x) ELSE NatToStr(x)

\* str() of a Python value
Str(v) == IF v.t = "str" THEN v.s ELSE IntToStr(v.n)

\* d[k] = v on an insertion-ordered dict kept as a sequence of <<key, value>>:
\* a key already present keeps its place and takes the new value.
DictSet(d, k, v) ==
    IF \E p \in 1..Len(d) : d[p][1] = k
    THEN [p \in 1..Len(d) |-> IF d[p][1] = k THEN <<k, v>> ELSE d[p]]
    ELSE Append(d, <<k, v>>)

DictKeys(d) == {d[p][1] : p \in 1..Len(d)}

SeqsUpTo(S, n) == UNION {[1..k -> S] : k \in 0..n}

NotAvailable == "not available"

MC == 19842

(***************************************************************************)
(* Part 0: the two property feeds, and drop_duplicates on whole rows.      *)
(***************************************************************************)
\* pd.concat([content, data], ignore_index = True)
Concat(a, b) == a \o b

\* DataFrame.drop_duplicates(keep='first') with no subset, then reset_index:
\* a row goes when an earlier row equals it in every column.
DropDuplicates(rows) ==
    LET keep(p) == \A q \in 1..(p - 1) : rows[q] # rows[p]
        F[p \in 0..Len(rows)] ==
            IF p = 0 THEN <<>>
            ELSE IF keep(p) THEN Append(F[p - 1], rows[p]) ELSE F[p - 1]
    IN F[Len(rows)]

(***************************************************************************)
(* Part 1: the default columns.                                            *)
(***************************************************************************)
AddDefaults(r) ==
    [property_id |-> r.property_id, lat |-> r.lat, lng |-> r.lng,
     addr_street |-> r.addr_street,
     suburb |-> NotAvailable,
     Lga |-> NotAvailable,
     closest_train_station_id |-> PyStr("0"),
     distance_to_closest_train_station |-> PyStr("0"),
     travel_min_to_MC |-> PyStr("-1"),
     direct_journey_flag |-> PyStr("-1"),
     sep_30_cases |-> PyStr(NotAvailable),
     last_14_days_cases |-> PyStr(NotAvailable),
     last_30_days_cases |-> PyStr(NotAvailable),
     last_60_days_cases |-> PyStr(NotAvailable)]

(***************************************************************************)
(* Part 2: suburb by point in polygon.  A polygon is an axis-parallel      *)
(* rectangle [x1, x2, y1, y2] with x the longitude and y the latitude;     *)
(* shapely's contains() is true of interior points only.                   *)
(***************************************************************************)
\* suburb_polygons[record[6]] = Polygon(shapes[i].points), record by record
BuildPolygons(rs) ==
    LET F[p \in 0..Len(rs)] ==
            IF p = 0 THEN <<>> ELSE DictSet(F[p - 1], rs[p].name, rs[p].poly)
    IN F[Len(rs)]

\* Point(x, y)
Point(x, y) == [x |-> x, y |-> y]

\* poly.contains(p)
Contains(poly, p) ==
    /\ poly.x1 < p.x /\ p.x < poly.x2
    /\ poly.y1 < p.y /\ p.y < poly.y2

\* in_suburb as it would be were the scan to go on after a match
in_suburb_LastMatch(polys, lat, lon) ==
    LET p == [x |-> lon, y |-> lat]
        hits == {q \in 1..Len(polys) : Contains(polys[q][2], p)}
    IN IF hits = {} THEN NotAvailable
       ELSE polys[CHOOSE q \in hits : \A h \in hits : q >= h][1]

\* in_suburb(lat, lon) over the dict polys, scanned in its own order
in_suburb(polys, lat, lon) ==
    LET p == Point(lon, lat)
        hits == {q \in 1..Len(polys) : Contains(polys[q][2], p)}
    IN IF hits = {} THEN NotAvailable
       ELSE polys[CHOOSE q \in hits : \A h \in hits : q <= h][1]

\* int() / float() of a numeric text: the number whose str() is the text
StrToInt(s) == CHOOSE x \in -180..180 : IntToStr(x) = s

\* pd.to_numeric on one cell
ToNumeric(v) == IF v.t = "str" THEN PyInt(StrToInt(v.s)) ELSE v

\* the cell In[12]: lat and lng to numbers, then the suburb of every row
AssignSuburbs(rows, polys) ==
    [i \in 1..Len(rows) |->
        LET lat == ToNumeric(rows[i].lat)
            lon == ToNumeric(rows[i].lng)
        IN [rows[i] EXCEPT !.lat = lat, !.lng = lon,
                           !.suburb = in_suburb(polys, lat.n, lon.n)]]

(***************************************************************************)
(* Part 3: the region (LGA) of a suburb.  A page of the PDF is kept as     *)
(* what the two re.findall calls return on its text: the region headers,   *)
(* and the bracketed groups, a group being the quoted names between one    *)
(* pair of brackets.                                                       *)
(***************************************************************************)
\* str.lower() on the names the run meets
Lower(s) ==
    CASE s \in {"CARLTON", "Carlton", "carlton"} -> "carlton"
      [] s \in {"KEW", "Kew", "kew"} -> "kew"
      [] s \in {"EUROA", "Euroa", "euroa"} -> "euroa"
      [] s = "C" -> "c"
      [] s = "K" -> "k"
      [] s = "E" -> "e"
      [] s = "A" -> "a"
      [] s = "R" -> "r"
      [] s = "L" -> "l"
      [] s = "T" -> "t"
      [] s = "O" -> "o"
      [] s = "N" -> "n"
      [] s = "W" -> "w"
      [] OTHER -> s

\* the characters of a name: what a for loop over a str yields
Chars(s) ==
    CASE s = "Carlton" -> <<"C", "a", "r", "l", "t", "o", "n">>
      [] s = "Kew" -> <<"K", "e", "w">>
      [] s = "Euroa" -> <<"E", "u", "r", "o", "a">>
      [] s = "CARLTON" -> <<"C", "A", "R", "L", "T", "O", "N">>
      [] s = "KEW" -> <<"K", "E", "W">>
      [] OTHER -> <<s>>

\* ast.literal_eval of the text between the brackets: two or more quoted
\* names give a tuple, one quoted name gives a str, no text is a SyntaxError
LiteralEval(g) ==
    IF Len(g) = 0 THEN [kind |-> "error", items |-> <<>>]
    ELSE IF Len(g) = 1 THEN [kind |-> "str", items |-> Chars(g[1])]
    ELSE [kind |-> "tuple", items |-> g]

\* the page as it would be read were the pairs zipped before the count test
ReadPageInto_Zip(dict, pg) ==
    LET m == IF Len(pg.LGA) < Len(pg.suburbs) THEN Len(pg.LGA) ELSE Len(pg.suburbs)
        F[i \in 0..m] ==
            IF i = 0 THEN dict
            ELSE DictSet(F[i - 1], pg.LGA[i], LiteralEval(pg.suburbs[i]).items)
    IN [dict |-> F[m], warned |-> Len(pg.LGA) # Len(pg.suburbs), error |-> "none"]

\* one page of the loop In[13]: [dict, warned, error]
ReadPageInto(dict, pg) ==
    LET LGA == pg.LGA
        suburbs == pg.suburbs
        F[i \in 0..Len(LGA)] ==
            IF i = 0 THEN [dict |-> dict, error |-> "none"]
            ELSE IF F[i - 1].error # "none" THEN F[i - 1]
            ELSE IF LiteralEval(suburbs[i]).kind = "error"
                 THEN [dict |-> F[i - 1].dict, error |-> "SyntaxError"]
            ELSE [dict |-> DictSet(F[i - 1].dict, LGA[i], LiteralEval(suburbs[i]).items),
                  error |-> "none"]
    IN IF Len(LGA) = Len(suburbs)
       THEN [dict |-> F[Len(LGA)].dict, warned |-> FALSE, error |-> F[Len(LGA)].error]
       ELSE [dict |-> dict, warned |-> TRUE, error |-> "none"]

\* the inner loops of In[14] for one suburb: every matching pair assigns,
\* so the value left is that of the last matching pair
LgaOf(suburb, dict, old) ==
    LET match(v) == suburb # "" /\ v # "" /\ Lower(suburb) = Lower(v)
        G[e \in 0..Len(dict)] ==
            IF e = 0 THEN old
            ELSE IF \E q \in 1..Len(dict[e][2]) : match(dict[e][2][q])
                 THEN dict[e][1] ELSE G[e - 1]
    IN G[Len(dict)]

LgaLookup(rows, dict) ==
    [i \in 1..Len(rows) |-> [rows[i] EXCEPT !.Lga = LgaOf(rows[i].suburb, dict, @)]]

\* every region is overwritten
LgaFix_EveryRow(rows) ==
    [i \in 1..Len(rows) |-> [rows[i] EXCEPT !.Lga = "STRATHBOGIE"]]

\* the cell In[15]
LgaFix(rows) ==
    [i \in 1..Len(rows) |->
        IF rows[i].Lga = "TRATHBOGIE" THEN [rows[i] EXCEPT !.Lga = "STRATHBOGIE"]
        ELSE rows[i]]

(***************************************************************************)
(* Part 4: the closest station.  haversine_distances is sklearn's; its     *)
(* value, in units of 0.00001 radian, is tabulated for the points the      *)
(* model uses.                                                             *)
(***************************************************************************)
PtIndex(lat, lon) ==
    CASE lat = -38 /\ lon = 144 -> 1
      [] lat = -37 /\ lon = 144 -> 2
      [] lat = -38 /\ lon = 145 -> 3
      [] lat = -37 /\ lon = 145 -> 4
      [] lat = 20 /\ lon = 144 -> 5
      [] lat = 20 /\ lon = 145 -> 6

HaversineTable ==
    << <<0, 1745, 1375, 2228, 101229, 101242>>,
       <<1745, 0, 2228, 1394, 99484, 99497>>,
       <<1375, 2228, 0, 1745, 101242, 101229>>,
       <<2228, 1394, 1745, 0, 99497, 99484>>,
       <<101229, 99484, 101242, 99497, 0, 1640>>,
       <<101242, 99497, 101229, 99484, 1640, 0>> >>

\* haversine_distances([[lat1, lon1], [lat2, lon2]])[0, 1]
Haversine(lat1, lon1, lat2, lon2) ==
    HaversineTable[PtIndex(lat1, lon1)][PtIndex(lat2, lon2)]

\* min_dist = 1 (radian)
InitialMinDist == 100000

\* kilometres per radian
EarthRadius == 6378

\* the update test as it would be with less-or-equal
CloserOrEqual(result_dist, min_dist) == result_dist <= min_dist

\* the update test of the running minimum
Closer(result_dist, min_dist) == result_dist < min_dist

\* the loop over the stations for one property:
\* [min_dist, dist_changed, closest_id]
NearestStation(lat, lon, sts) ==
    LET F[j \in 0..Len(sts)] ==
            IF j = 0
            THEN [min_dist |-> InitialMinDist, dist_changed |-> FALSE, closest_id |-> 0]
            ELSE LET result_dist ==
                         (Haversine(lat, lon, sts[j].stop_lat, sts[j].stop_lon)
                          + Haversine(sts[j].stop_lat, sts[j].stop_lon, lat, lon)) \div 2
                 IN IF Closer(result_dist, F[j - 1].min_dist)
                    THEN [min_dist |-> result_dist, dist_changed |-> TRUE,
                          closest_id |-> sts[j].stop_id]
                    ELSE F[j - 1]
    IN F[Len(sts)]

\* the cell In[17] as it would be without the test on dist_changed
AssignStations_NoChangeTest(rows, sts) ==
    [i \in 1..Len(rows) |->
        LET r == NearestStation(rows[i].lat.n, rows[i].lng.n, sts)
        IN [rows[i] EXCEPT !.closest_train_station_id = PyInt(r.closest_id),
                           !.distance_to_closest_train_station
                               = PyInt(r.min_dist * EarthRadius)]]

\* the cell In[17]
AssignStations(rows, sts) ==
    [i \in 1..Len(rows) |->
        LET r == NearestStation(rows[i].lat.n, rows[i].lng.n, sts)
            dist == r.min_dist * EarthRadius
        IN IF r.dist_changed
           THEN [rows[i] EXCEPT !.closest_train_station_id = PyInt(r.closest_id),
                                !.distance_to_closest_train_station = PyInt(dist)]
           ELSE rows[i]]

(***************************************************************************)
(* Part 5: travel time to Melbourne Central.  A time "HH:MM:SS" is kept    *)
(* as [h, m, s].                                                           *)
(***************************************************************************)
\* the services as they would be were one weekday enough
ServiceList_AnyWeekday(cal) ==
    {cal[i].service_id : i \in {q \in 1..Len(cal) :
        cal[q].monday + cal[q].tuesday + cal[q].wednesday
          + cal[q].thursday + cal[q].friday > 0}}

\* the services whose five weekday columns sum to 5
ServiceList(cal) ==
    {cal[i].service_id : i \in {q \in 1..Len(cal) :
        cal[q].monday + cal[q].tuesday + cal[q].wednesday
          + cal[q].thursday + cal[q].friday = 5}}

\* the trips of those services
TripSet(tr, services) ==
    {tr[i].trip_id : i \in {q \in 1..Len(tr) : tr[q].service_id \in services}}

\* the trips of trip_set with a stop at Melbourne Central
McTrips(st, tset) ==
    {st[i].trip_id : i \in {q \in 1..Len(st) :
        st[q].trip_id \in tset /\ IntToStr(st[q].stop_id) = "19842"}}

\* the cell In[22] as it would be were the whole time reset
Normalize_ResetTime(st) ==
    [i \in 1..Len(st) |->
        IF st[i].arrival_time.h = 24
        THEN [st[i] EXCEPT !.arrival_time = [h |-> 0, m |-> 0, s |-> 0]]
        ELSE st[i]]

\* the cell In[22]: an arrival hour of 24 becomes 00, minutes and seconds kept
Normalize(st) ==
    [i \in 1..Len(st) |->
        IF st[i].arrival_time.h = 24
        THEN [st[i] EXCEPT !.arrival_time = [@ EXCEPT !.h = 0]]
        ELSE st[i]]

\* whether datetime.strptime(t, '%H:%M:%S') accepts t
StrptimeOk(t) == t.h <= 23 /\ t.m <= 59 /\ t.s <= 59

\* the second of the day strptime gives
SecondOfDay(t) == 3600 * t.h + 60 * t.m + t.s

\* the difference as it would be were it signed
DeltaSeconds_Signed(arr, dep) == SecondOfDay(arr) - SecondOfDay(dep)

\* (strptime(arr) - strptime(dep)).seconds: the difference within one day
DeltaSeconds(arr, dep) == (SecondOfDay(arr) - SecondOfDay(dep)) % 86400

\* for k in range(1, ScanBound)
ScanBound == 32

\* the window as it would be with both ends included
InWindow_Inclusive(hour) == hour >= 6 /\ hour <= 9

\* (hour > 6) & (hour < 9)
InWindow(hour) == hour > 6 /\ hour < 9

\* the loop over k from one matching row i (rows are numbered from 1):
\* acc is [time_total, number_trips, error, pairs], pairs being the rows
\* <<i, i + k>> whose difference was added to time_total
RECURSIVE Walk(_, _, _, _, _)
Walk(st, i, k, seq_begin, acc) ==
    IF k >= ScanBound THEN acc
    ELSE IF i + k > Len(st) THEN [acc EXCEPT !.error = "IndexError"]
    ELSE IF st[i + k].stop_sequence < seq_begin THEN acc
    ELSE IF IntToStr(st[i + k].stop_id) = "19842"
         THEN IF StrptimeOk(st[i + k].arrival_time) /\ StrptimeOk(st[i].departure_time)
              THEN Walk(st, i, k + 1, seq_begin,
                        [acc EXCEPT !.time_total = @ + DeltaSeconds(st[i + k].arrival_time,
                                                                  st[i].departure_time),
                                    !.number_trips = @ + 1,
                                    !.pairs = @ \cup {<<i, i + k>>}])
              ELSE [acc EXCEPT !.error = "ValueError"]
    ELSE Walk(st, i, k + 1, seq_begin, acc)

\* the loop over the rows of st_np for one stop_id
RECURSIVE TraverseFrom(_, _, _, _, _)
TraverseFrom(stop_id, st, mc, i, acc) ==
    IF i > Len(st) \/ acc.error # "none" THEN acc
    ELSE IF /\ IntToStr(st[i].stop_id) = stop_id
            /\ st[i].trip_id \in mc
            /\ InWindow(st[i].departure_time.h)
         THEN TraverseFrom(stop_id, st, mc, i + 1, Walk(st, i, 1, st[i].stop_sequence, acc))
    ELSE TraverseFrom(stop_id, st, mc, i + 1, acc)

Traverse(stop_id, st, mc) ==
    TraverseFrom(stop_id, st, mc, 1,
                 [time_total |-> 0, number_trips |-> 0, error |-> "none", pairs |-> {}])

\* round as it would be were the quotient cut off
PyRound_Truncate(num, den) == num \div den

\* round(x) of Python 3 for x = num / den: to the nearest, a tie to the even
PyRound(num, den) ==
    LET q == num \div den
        r == num % den
    IN IF 2 * r < den THEN q
       ELSE IF 2 * r > den THEN q + 1
       ELSE IF q % 2 = 0 THEN q ELSE q + 1

\* the entry stored for a traversed station (time_total is in seconds)
TripEntry(r) ==
    IF r.number_trips = 0 THEN PyStr(NotAvailable)
    ELSE PyInt(PyRound(r.time_total, 60 * r.number_trips))

\* trip_dict as it would start were the destination's entry left out
InitialTripDict_Empty == <<>>

\* trip_dict = {}; trip_dict["19842"] = 0
InitialTripDict == ("19842" :> PyInt(0))

\* the loop In[25] as it would be without the test on trip_dict's keys
NeedsTraversal_Always(stop_id, dict) == TRUE

\* whether the loop In[25] traverses for this stop_id
NeedsTraversal(stop_id, dict) == stop_id \notin DOMAIN dict

\* the fill-in as it would be were the value written one column to the left
FillIn_DistanceColumn(row, dict) ==
    IF Str(row.closest_train_station_id) \in DOMAIN dict
    THEN [row EXCEPT !.distance_to_closest_train_station =
                         dict[Str(row.closest_train_station_id)]]
    ELSE row

\* the cell In[26] for one row
FillIn(row, dict) ==
    IF Str(row.closest_train_station_id) \in DOMAIN dict
    THEN [row EXCEPT !.travel_min_to_MC = dict[Str(row.closest_train_station_id)]]
    ELSE row

\* the flag as it would be were only the default told apart
DeriveFlag_NoSentinelTest(row) ==
    IF Str(row.travel_min_to_MC) = "-1"
    THEN [row EXCEPT !.direct_journey_flag = PyStr("-1")]
    ELSE [row EXCEPT !.direct_journey_flag = PyInt(1)]

\* the cell In[28] for one row
DeriveFlag(row) ==
    LET value == Str(row.travel_min_to_MC)
    IN IF value = "not available" THEN [row EXCEPT !.direct_journey_flag = PyInt(0)]
       ELSE IF value = "-1" THEN [row EXCEPT !.direct_journey_flag = PyStr("-1")]
       ELSE [row EXCEPT !.direct_journey_flag = PyInt(1)]

(***************************************************************************)
(* Part 6: the case numbers.  covid_dict is what the scrape of the cell    *)
(* In[32] left; the cell In[33] copies it into the rows.                   *)
(***************************************************************************)
\* LGA.lower().replace(" ", "-") on the regions the run meets
LgaSlug(s) ==
    CASE s = "MELBOURNE" -> "melbourne"
      [] s = "BOROONDARA" -> "boroondara"
      [] s = "YARRA" -> "yarra"
      [] s = "STRATHBOGIE" -> "strathbogie"
      [] s = "TRATHBOGIE" -> "trathbogie"
      [] s = "not available" -> "not-available"
      [] OTHER -> s

CovidFill(row, cdict) ==
    LET lga == LgaSlug(row.Lga)
        hits == {q \in 1..Len(cdict) : cdict[q][1] = lga}
    IN IF hits = {} THEN row
       ELSE LET value == cdict[CHOOSE q \in hits : TRUE][2]
            IN [row EXCEPT !.sep_30_cases = PyInt(value[1]),
                           !.last_14_days_cases = PyInt(value[2]),
                           !.last_30_days_cases = PyInt(value[3]),
                           !.last_60_days_cases = PyInt(value[4])]

(***************************************************************************)
(* The state: the input files, and the notebook's globals.                 *)
(***************************************************************************)
VARIABLES
    pc,                 \* the cell (or loop) about to run
    error,              \* the exception that ended the run, or "none"
    content, data,      \* house_data.json and house_data.xml as data frames
    recs,               \* the shapefile's records with their shapes
    pages,              \* the pages of lga_to_suburb.pdf
    stops, calendar, trips, stop_times,     \* the GTFS tables
    covid_dict,         \* the outcome of the scrape
    combined_data, clean_data,
    suburb_polygons,
    LGA_dict, page, warnings,
    service_list, trip_set, mc_trips,
    cd_np, st_np, trip_dict, j,
    traversed,          \* the stop ids the loop In[25] has traversed for, in order
    exported            \* cleaned_data.csv

inputs == <<content, data, recs, pages, stops, calendar, trips, covid_dict>>

vars == <<pc, error, content, data, recs, pages, stops, calendar, trips, stop_times,
          covid_dict, combined_data, clean_data, suburb_polygons, LGA_dict, page,
          warnings, service_list, trip_set, mc_trips, cd_np, st_np, trip_dict, j,
          traversed, exported>>

(***************************************************************************)
(* The cells.                                                              *)
(***************************************************************************)
ConcatFeeds ==
    /\ pc = "concat"
    /\ combined_data' = Concat(content, data)
    /\ pc' = "drop_duplicates"
    /\ UNCHANGED <<error, inputs, stop_times, clean_data, suburb_polygons, LGA_dict,
                   page, warnings, service_list, trip_set, mc_trips, cd_np, st_np,
                   trip_dict, j, traversed, exported>>

RemoveDuplicates ==
    /\ pc = "drop_duplicates"
    /\ clean_data' = DropDuplicates(combined_data)
    /\ pc' = "defaults"
    /\ UNCHANGED <<error, inputs, stop_times, combined_data, suburb_polygons, LGA_dict,
                   page, warnings, service_list, trip_set, mc_trips, cd_np, st_np,
                   trip_dict, j, traversed, exported>>

SetDefaults ==
    /\ pc = "defaults"
    /\ clean_data' = [i \in 1..Len(clean_data) |-> AddDefaults(clean_data[i])]
    /\ pc' = "polygons"
    /\ UNCHANGED <<error, inputs, stop_times, combined_data, suburb_polygons, LGA_dict,
                   page, warnings, service_list, trip_set, mc_trips, cd_np, st_np,
                   trip_dict, j, traversed, exported>>

MakePolygons ==
    /\ pc = "polygons"
    /\ suburb_polygons' = BuildPolygons(recs)
    /\ pc' = "suburb"
    /\ UNCHANGED <<error, inputs, stop_times, combined_data, clean_data, LGA_dict,
                   page, warnings, service_list, trip_set, mc_trips, cd_np, st_np,
                   trip_dict, j, traversed, exported>>

FindSuburbs ==
    /\ pc = "suburb"
    /\ clean_data' = AssignSuburbs(clean_data, suburb_polygons)
    /\ pc' = "pdf"
    /\ UNCHANGED <<error, inputs, stop_times, combined_data, suburb_polygons, LGA_dict,
                   page, warnings, service_list, trip_set, mc_trips, cd_np, st_np,
                   trip_dict, j, traversed, exported>>

\* one iteration of the loop over the pages
ReadPage ==
    /\ pc = "pdf"
    /\ page <= Len(pages)
    /\ LET r == ReadPageInto(LGA_dict, pages[page])
       IN /\ LGA_dict' = r.dict
          /\ warnings' = IF r.warned THEN warnings + 1 ELSE warnings
          /\ error' = r.error
          /\ IF r.error = "none"
             THEN page' = page + 1 /\ pc' = pc
             ELSE page' = page /\ pc' = "abort"
    /\ UNCHANGED <<inputs, stop_times, combined_data, clean_data, suburb_polygons,
                   service_list, trip_set, mc_trips, cd_np, st_np, trip_dict, j,
                   traversed, exported>>

\* the loop is over: the file is closed and the dictionary printed
ClosePdf ==
    /\ pc = "pdf"
    /\ page > Len(pages)
    /\ pc' = "lga"
    /\ UNCHANGED <<error, inputs, stop_times, combined_data, clean_data,
                   suburb_polygons, LGA_dict, page, warnings, service_list, trip_set,
                   mc_trips, cd_np, st_np, trip_dict, j, traversed, exported>>

FindLga ==
    /\ pc = "lga"
    /\ clean_data' = LgaLookup(clean_data, LGA_dict)
    /\ pc' = "lga_fix"
    /\ UNCHANGED <<error, inputs, stop_times, combined_data, suburb_polygons, LGA_dict,
                   page, warnings, service_list, trip_set, mc_trips, cd_np, st_np,
                   trip_dict, j, traversed, exported>>

FixLga ==
    /\ pc = "lga_fix"
    /\ clean_data' = LgaFix(clean_data)
    /\ pc' = "nearest"
    /\ UNCHANGED <<error, inputs, stop_times, combined_data, suburb_polygons, LGA_dict,
                   page, warnings, service_list, trip_set, mc_trips, cd_np, st_np,
                   trip_dict, j, traversed, exported>>

FindStations ==
    /\ pc = "nearest"
    /\ clean_data' = AssignStations(clean_data, stops)
    /\ pc' = "service_list"
    /\ UNCHANGED <<error, inputs, stop_times, combined_data, suburb_polygons, LGA_dict,
                   page, warnings, service_list, trip_set, mc_trips, cd_np, st_np,
                   trip_dict, j, traversed, exported>>

MakeServiceList ==
    /\ pc = "service_list"
    /\ service_list' = ServiceList(calendar)
    /\ pc' = "trip_set"
    /\ UNCHANGED <<error, inputs, stop_times, combined_data, clean_data,
                   suburb_polygons, LGA_dict, page, warnings, trip_set, mc_trips,
                   cd_np, st_np, trip_dict, j, traversed, exported>>

MakeTripSet ==
    /\ pc = "trip_set"
    /\ trip_set' = TripSet(trips, service_list)
    /\ pc' = "mc_trips"
    /\ UNCHANGED <<error, inputs, stop_times, combined_data, clean_data,
                   suburb_polygons, LGA_dict, page, warnings, service_list, mc_trips,
                   cd_np, st_np, trip_dict, j, traversed, exported>>

MakeMcTrips ==
    /\ pc = "mc_trips"
    /\ mc_trips' = McTrips(stop_times, trip_set)
    /\ pc' = "normalize"
    /\ UNCHANGED <<error, inputs, stop_times, combined_data, clean_data,
                   suburb_polygons, LGA_dict, page, warnings, service_list, trip_set,
                   cd_np, st_np, trip_dict, j, traversed, exported>>

NormalizeTimes ==
    /\ pc = "normalize"
    /\ stop_times' = Normalize(stop_times)
    /\ pc' = "to_numpy"
    /\ UNCHANGED <<error, inputs, combined_data, clean_data, suburb_polygons, LGA_dict,
                   page, warnings, service_list, trip_set, mc_trips, cd_np, st_np,
                   trip_dict, j, traversed, exported>>

ToNumpy ==
    /\ pc = "to_numpy"
    /\ cd_np' = clean_data
    /\ st_np' = stop_times
    /\ pc' = "trip_dict"
    /\ UNCHANGED <<error, inputs, stop_times, combined_data, clean_data,
                   suburb_polygons, LGA_dict, page, warnings, service_list, trip_set,
                   mc_trips, trip_dict, j, traversed, exported>>

\* trip_dict = {}; trip_dict["19842"] = 0
BeginTripDict ==
    /\ pc = "trip_dict"
    /\ trip_dict' = InitialTripDict
    /\ j' = 1
    /\ pc' = "router"
    /\ UNCHANGED <<error, inputs, stop_times, combined_data, clean_data,
                   suburb_polygons, LGA_dict, page, warnings, service_list, trip_set,
                   mc_trips, cd_np, st_np, traversed, exported>>

\* one iteration of the loop over the properties (rows are numbered from 1)
RouterStep ==
    /\ pc = "router"
    /\ j <= Len(cd_np)
    /\ LET stop_id == Str(cd_np[j].closest_train_station_id)
           r == Traverse(stop_id, st_np, mc_trips)
       IN IF NeedsTraversal(stop_id, trip_dict)
          THEN /\ traversed' = Append(traversed, stop_id)
               /\ error' = r.error
               /\ IF r.error = "none"
                  THEN /\ trip_dict' = (stop_id :> TripEntry(r)) @@ trip_dict
                       /\ j' = j + 1
                       /\ pc' = pc
                  ELSE /\ trip_dict' = trip_dict
                       /\ j' = j
                       /\ pc' = "abort"
          ELSE /\ j' = j + 1
               /\ UNCHANGED <<pc, error, trip_dict, traversed>>
    /\ UNCHANGED <<inputs, stop_times, combined_data, clean_data, suburb_polygons,
                   LGA_dict, page, warnings, service_list, trip_set, mc_trips, cd_np,
                   st_np, exported>>

\* the loop is over: "COMPLETE!"
EndRouter ==
    /\ pc = "router"
    /\ j > Len(cd_np)
    /\ pc' = "fill_in"
    /\ UNCHANGED <<error, inputs, stop_times, combined_data, clean_data,
                   suburb_polygons, LGA_dict, page, warnings, service_list, trip_set,
                   mc_trips, cd_np, st_np, trip_dict, j, traversed, exported>>

FillTravelTimes ==
    /\ pc = "fill_in"
    /\ cd_np' = [i \in 1..Len(cd_np) |-> FillIn(cd_np[i], trip_dict)]
    /\ pc' = "to_frame"
    /\ UNCHANGED <<error, inputs, stop_times, combined_data, clean_data,
                   suburb_polygons, LGA_dict, page, warnings, service_list, trip_set,
                   mc_trips, st_np, trip_dict, j, traversed, exported>>

\* clean_data = pd.DataFrame(cd_np, columns = column_names)
ToFrame ==
    /\ pc = "to_frame"
    /\ clean_data' = cd_np
    /\ pc' = "flag"
    /\ UNCHANGED <<error, inputs, stop_times, combined_data, suburb_polygons, LGA_dict,
                   page, warnings, service_list, trip_set, mc_trips, cd_np, st_np,
                   trip_dict, j, traversed, exported>>

SetFlags ==
    /\ pc = "flag"
    /\ clean_data' = [i \in 1..Len(clean_data) |-> DeriveFlag(clean_data[i])]
    /\ pc' = "covid"
    /\ UNCHANGED <<error, inputs, stop_times, combined_data, suburb_polygons, LGA_dict,
                   page, warnings, service_list, trip_set, mc_trips, cd_np, st_np,
                   trip_dict, j, traversed, exported>>

FillCovid ==
    /\ pc = "covid"
    /\ clean_data' = [i \in 1..Len(clean_data) |-> CovidFill(clean_data[i], covid_dict)]
    /\ pc' = "export"
    /\ UNCHANGED <<error, inputs, stop_times, combined_data, suburb_polygons, LGA_dict,
                   page, warnings, service_list, trip_set, mc_trips, cd_np, st_np,
                   trip_dict, j, traversed, exported>>

\* Parts 7 and 8: the index becomes property_id and the frame is written
Export ==
    /\ pc = "export"
    /\ exported' = clean_data
    /\ pc' = "done"
    /\ UNCHANGED <<error, inputs, stop_times, combined_data, clean_data,
                   suburb_polygons, LGA_dict, page, warnings, service_list, trip_set,
                   mc_trips, cd_np, st_np, trip_dict, j, traversed>>

Next ==
    \/ ConcatFeeds \/ RemoveDuplicates \/ SetDefaults \/ MakePolygons \/ FindSuburbs
    \/ ReadPage \/ ClosePdf \/ FindLga \/ FixLga \/ FindStations
    \/ MakeServiceList \/ MakeTripSet \/ MakeMcTrips \/ NormalizeTimes \/ ToNumpy
    \/ BeginTripDict \/ RouterStep \/ EndRouter \/ FillTravelTimes \/ ToFrame
    \/ SetFlags \/ FillCovid \/ Export

(***************************************************************************)
(* The input files.  Every specification starts the run on files drawn     *)
(* from one family, the other files being the base ones.                   *)
(***************************************************************************)
MaxFeed == 2
MaxRecs == 2
MaxStops == 3
MaxPages == 3
MaxRows == 3

\* a row of pd.read_json: numbers
JsonRec(id, lat, lng) ==
    [property_id |-> PyInt(id), lat |-> PyInt(lat), lng |-> PyInt(lng),
     addr_street |-> PyStr("1 Main St")]

\* a row built from the XML tags' get_text(): strings
XmlRec(id, lat, lng) ==
    [property_id |-> PyStr(IntToStr(id)), lat |-> PyStr(IntToStr(lat)),
     lng |-> PyStr(IntToStr(lng)), addr_street |-> PyStr("1 Main St")]

Rect(x1, x2, y1, y2) == [x1 |-> x1, x2 |-> x2, y1 |-> y1, y2 |-> y2]
RectWest == Rect(143, 145, -38, -36)
RectEast == Rect(144, 146, -38, -36)
RectBoth == Rect(143, 146, -38, -36)

Time(h, m, s) == [h |-> h, m |-> m, s |-> s]

StopRow(stop_id, lat, lon) == [stop_id |-> stop_id, stop_lat |-> lat, stop_lon |-> lon]

CalRow(service_id, mo, tu, we, th, fr) ==
    [service_id |-> service_id, monday |-> mo, tuesday |-> tu, wednesday |-> we,
     thursday |-> th, friday |-> fr]

TripRow(trip_id, service_id) == [trip_id |-> trip_id, service_id |-> service_id]

StopTime(trip_id, arr, dep, stop_id, seq) ==
    [trip_id |-> trip_id, arrival_time |-> arr, departure_time |-> dep,
     stop_id |-> stop_id, stop_sequence |-> seq]

PageOf(LGA, suburbs) == [LGA |-> LGA, suburbs |-> suburbs]

\* properties 1 and 4 lie nearest station 7, property 2 nearest station 8, and
\* property 3 lies more than a radian from both
BaseContent == <<JsonRec(1, -37, 144), JsonRec(2, -37, 145), JsonRec(3, 20, 144)>>
BaseData == <<XmlRec(4, -37, 144)>>
BaseRecs == <<[name |-> "CARLTON", poly |-> RectWest], [name |-> "KEW", poly |-> RectEast]>>
BasePages == <<PageOf(<<"MELBOURNE">>, << <<"Carlton", "Euroa">> >>),
               PageOf(<<"BOROONDARA">>, << <<"Kew", "Euroa">> >>)>>
BaseStops == <<StopRow(7, -38, 144), StopRow(8, -38, 145)>>
BaseCalendar == <<CalRow(1, 1, 1, 1, 1, 1), CalRow(2, 1, 1, 1, 1, 0)>>
BaseTrips == <<TripRow(1, 1), TripRow(2, 2)>>
\* trip 1 calls at station 7 and reaches Melbourne Central 20 minutes later;
\* trip 2, not a weekday trip, calls at station 8
BaseStopTimes ==
    <<StopTime(1, Time(7, 10, 0), Time(7, 10, 0), 9, 1),
      StopTime(1, Time(7, 15, 0), Time(7, 15, 0), 7, 2),
      StopTime(1, Time(7, 35, 0), Time(7, 35, 0), MC, 3),
      StopTime(2, Time(7, 20, 0), Time(7, 20, 0), 8, 1),
      StopTime(2, Time(7, 40, 0), Time(7, 40, 0), MC, 2)>>
BaseCovid == << <<"melbourne", <<5, 3, 2, 1>>>> >>

\* the globals before the first cell
Start ==
    /\ pc = "concat"
    /\ error = "none"
    /\ combined_data = <<>>
    /\ clean_data = <<>>
    /\ suburb_polygons = <<>>
    /\ LGA_dict = <<>>
    /\ page = 1
    /\ warnings = 0
    /\ service_list = {}
    /\ trip_set = {}
    /\ mc_trips = {}
    /\ cd_np = <<>>
    /\ st_np = <<>>
    /\ trip_dict = <<>>
    /\ j = 1
    /\ traversed = <<>>
    /\ exported = <<>>
    /\ covid_dict = BaseCovid

\* the property feeds vary
FeedJson == {JsonRec(id, lat, 144) : id \in 1..2, lat \in {-37, 20}}
FeedXml == {XmlRec(id, lat, 144) : id \in 1..2, lat \in {-37, 20}}

InitFeeds ==
    /\ Start
    /\ content \in SeqsUpTo(FeedJson, MaxFeed)
    /\ data \in SeqsUpTo(FeedXml, MaxFeed)
    /\ recs = BaseRecs /\ pages = BasePages /\ stops = BaseStops
    /\ calendar = BaseCalendar /\ trips = BaseTrips /\ stop_times = BaseStopTimes

\* the shapefile and the properties' coordinates vary
PropCoords == {<<-37, 144>>, <<-37, 145>>, <<20, 144>>}
RecDomain == {[name |-> nm, poly |-> po] : nm \in {"CARLTON", "KEW"},
                                           po \in {RectWest, RectEast, RectBoth}}

InitGeo ==
    /\ Start
    /\ \E c \in PropCoords : content = <<JsonRec(1, c[1], c[2])>>
    /\ \E c \in PropCoords : data = <<XmlRec(2, c[1], c[2])>>
    /\ recs \in SeqsUpTo(RecDomain, MaxRecs)
    /\ pages = BasePages /\ stops = BaseStops
    /\ calendar = BaseCalendar /\ trips = BaseTrips /\ stop_times = BaseStopTimes

\* the station table and the properties' coordinates vary
StopDomain == {StopRow(id, c[1], c[2]) : id \in {7, 8},
                                         c \in {<<-38, 144>>, <<-38, 145>>, <<20, 145>>}}

InitStations ==
    /\ Start
    /\ \E c \in PropCoords : content = <<JsonRec(1, c[1], c[2])>>
    /\ data \in {<<XmlRec(2, -37, 144)>>, <<XmlRec(2, 20, 144)>>}
    /\ stops \in SeqsUpTo(StopDomain, MaxStops)
    /\ recs = BaseRecs /\ pages = BasePages
    /\ calendar = BaseCalendar /\ trips = BaseTrips /\ stop_times = BaseStopTimes

\* the pages of the PDF vary
PageDomain ==
    {PageOf(<<"MELBOURNE">>, << <<"Carlton", "Euroa">> >>),
     PageOf(<<"TRATHBOGIE", "BOROONDARA">>, << <<"Euroa", "Carlton">>, <<"Kew", "Carlton">> >>),
     PageOf(<<"YARRA", "BOROONDARA">>, << <<"Kew", "Euroa">> >>),
     PageOf(<<"BOROONDARA">>, << <<"Kew", "Euroa">>, <<"Carlton", "Kew">> >>),
     PageOf(<<>>, <<>>)}

InitPages ==
    /\ Start
    /\ content = BaseContent /\ data = BaseData
    /\ pages \in SeqsUpTo(PageDomain, MaxPages)
    /\ recs = BaseRecs /\ stops = BaseStops
    /\ calendar = BaseCalendar /\ trips = BaseTrips /\ stop_times = BaseStopTimes

\* the pages of the PDF vary among pages whose counts agree: a region with
\* one suburb, a header met twice on a page, and headers met on two pages
LgaPageDomain ==
    {PageOf(<<"MELBOURNE">>, << <<"Carlton", "Euroa">> >>),
     PageOf(<<"YARRA">>, << <<"Carlton">> >>),
     PageOf(<<"BOROONDARA", "BOROONDARA">>,
            << <<"Kew", "Euroa">>, <<"Carlton", "Kew", "KEW">> >>),
     PageOf(<<"MELBOURNE", "YARRA">>, << <<"Euroa", "Kew">>, <<"Kew", "Carlton">> >>),
     PageOf(<<"TRATHBOGIE">>, << <<"Euroa", "Kew">> >>)}

InitLga ==
    /\ Start
    /\ content = BaseContent /\ data = BaseData
    /\ pages \in SeqsUpTo(LgaPageDomain, MaxPages)
    /\ recs = BaseRecs /\ stops = BaseStops
    /\ calendar = BaseCalendar /\ trips = BaseTrips /\ stop_times = BaseStopTimes

\* the stop-time table varies
\* a call at station 7 is at 07:15:00 and one at Melbourne Central at 07:42:00
RowDomain ==
    {StopTime(tr, IF st = MC THEN Time(7, 42, 0) ELSE Time(7, 15, 0),
              IF st = MC THEN Time(7, 42, 0) ELSE Time(7, 15, 0), st, sq) :
        tr \in {1, 2}, st \in {7, MC}, sq \in {1, 2, 3}}

\* the one trip of the schedule example: sequence numbers 1, 2, 3, origin
\* departure 07:15:00, arrival at Melbourne Central 07:42:00
ThreeStopTrip ==
    <<StopTime(1, Time(7, 15, 0), Time(7, 15, 0), 7, 1),
      StopTime(1, Time(7, 30, 0), Time(7, 30, 0), 9, 2),
      StopTime(1, Time(7, 42, 0), Time(7, 42, 0), MC, 3)>>

\* the one trip of the end-to-end example: station 7 to Melbourne Central in
\* 20 minutes
TwentyMinuteTrip ==
    <<StopTime(1, Time(7, 15, 0), Time(7, 15, 0), 7, 1),
      StopTime(1, Time(7, 35, 0), Time(7, 35, 0), MC, 2)>>

\* a station table in which Melbourne Central itself is the station nearest
\* the property at latitude -37, longitude 145
StopsWithMC == <<StopRow(7, -38, 144), StopRow(MC, -38, 145)>>

\* the stop-time table is made of whole trips
MaxBlocks == 2

\* a trip that calls at stop 9, then at station 7 at 07:15:00, and reaches
\* Melbourne Central at arr
Inbound(t, arr) ==
    <<StopTime(t, Time(7, 0, 0), Time(7, 0, 0), 9, 1),
      StopTime(t, Time(7, 15, 0), Time(7, 15, 0), 7, 2),
      StopTime(t, arr, arr, MC, 3)>>

\* a trip whose first stop is station 7, at 07:15:00
FromOrigin(t, arr) ==
    <<StopTime(t, Time(7, 15, 0), Time(7, 15, 0), 7, 1),
      StopTime(t, arr, arr, MC, 2)>>

\* a trip out of Melbourne Central that calls at station 7 at 07:15:00; its
\* sequence numbers are not consecutive
Outbound(t) ==
    <<StopTime(t, Time(7, 0, 0), Time(7, 0, 0), MC, 1),
      StopTime(t, Time(7, 15, 0), Time(7, 15, 0), 7, 2),
      StopTime(t, Time(7, 30, 0), Time(7, 30, 0), 9, 9)>>

\* a trip from station 8 whose sequence numbers start at 5
HighSeq(t, arr) ==
    <<StopTime(t, Time(7, 20, 0), Time(7, 20, 0), 8, 5),
      StopTime(t, arr, arr, MC, 6)>>

\* a trip whose first stop is station 7, where it arrives at arr and leaves
\* at dep, and which reaches Melbourne Central at 09:30:00
CallAt(t, arr, dep) ==
    <<StopTime(t, arr, dep, 7, 1),
      StopTime(t, Time(9, 30, 0), Time(9, 30, 0), MC, 2)>>

\* a trip from station 7, at 07:15:00, that does not call at Melbourne Central
NoDestination(t) ==
    <<StopTime(t, Time(7, 15, 0), Time(7, 15, 0), 7, 1),
      StopTime(t, Time(7, 30, 0), Time(7, 30, 0), 9, 2)>>

ArrDomain == {Time(7, 35, 0), Time(7, 36, 0), Time(7, 36, 20), Time(24, 5, 0)}

\* arrival and departure at station 7 on either side of 07:00:00 and of
\* 09:00:00
CallDomain ==
    {<<Time(6, 58, 0), Time(6, 59, 59)>>, <<Time(6, 59, 59), Time(7, 0, 0)>>,
     <<Time(8, 59, 0), Time(8, 59, 59)>>, <<Time(8, 59, 59), Time(9, 0, 0)>>}

\* the trips the block at place p may be: trip 10p + 1, of a service that
\* runs on every weekday, or trip 10p + 2, of a service that does not
BlockDomain(p) ==
    {Inbound(10 * p + 1, arr) : arr \in ArrDomain}
        \cup {FromOrigin(10 * p + 1, Time(7, 35, 0)), Outbound(10 * p + 1),
              Inbound(10 * p + 2, Time(7, 50, 0)), HighSeq(10 * p + 2, Time(7, 50, 0))}

\* the tables of n trips, every trip with its own id
BlockSeqs(n) ==
    {b \in [1..n -> UNION {BlockDomain(p) : p \in 1..n}] :
        \A p \in 1..n : b[p] \in BlockDomain(p)}

\* the rows after the trips: the first row of trip 3, or its first 31 rows
ShortTail == <<StopTime(3, Time(9, 1, 0), Time(9, 1, 0), 101, 1)>>
LongTail == [k \in 1..31 |-> StopTime(3, Time(9, k, 0), Time(9, k, 0), 100 + k, k)]

RECURSIVE Flatten(_)
Flatten(blocks) ==
    IF blocks = <<>> THEN <<>> ELSE Head(blocks) \o Flatten(Tail(blocks))

\* trips.txt: trip 3 and the trips 10p + 2 are of service 2
WalkTrips ==
    [q \in 1..(2 * MaxBlocks) |->
        IF q % 2 = 1 THEN TripRow(10 * ((q + 1) \div 2) + 1, 1)
        ELSE TripRow(10 * (q \div 2) + 2, 2)] \o <<TripRow(3, 2)>>

\* the stop-time table varies trip by trip; station 7 is nearest properties 1
\* and 4, Melbourne Central nearest property 2, and property 3 has no station
InitWalk ==
    /\ Start
    /\ content = BaseContent /\ data = BaseData
    /\ stops = StopsWithMC
    /\ \E n \in 0..MaxBlocks :
           \E blocks \in BlockSeqs(n) :
               \E tail \in {ShortTail, LongTail} :
                   stop_times = Flatten(blocks) \o tail
    /\ recs = BaseRecs /\ pages = BasePages
    /\ calendar = BaseCalendar /\ trips = WalkTrips

\* the trips the block at place p may be when the calls at station 7 are
\* around the ends of the window: trip 10p + 1, of a service that runs on
\* every weekday, or trip 10p + 2, of a service that does not
CallBlockDomain(p) ==
    {CallAt(10 * p + 1, c[1], c[2]) : c \in CallDomain}
        \cup {NoDestination(10 * p + 1), Inbound(10 * p + 2, Time(7, 50, 0)),
              Inbound(10 * p + 1, Time(7, 14, 30))}

CallBlockSeqs(n) ==
    {b \in [1..n -> UNION {CallBlockDomain(p) : p \in 1..n}] :
        \A p \in 1..n : b[p] \in CallBlockDomain(p)}

\* the stop-time table varies trip by trip, with calls at station 7 on
\* either side of the ends of the window
InitWindow ==
    /\ Start
    /\ content = BaseContent /\ data = BaseData
    /\ stops = StopsWithMC
    /\ \E n \in 0..MaxBlocks :
           \E blocks \in CallBlockSeqs(n) :
               \E tail \in {ShortTail, LongTail} :
                   stop_times = Flatten(blocks) \o tail
    /\ recs = BaseRecs /\ pages = BasePages
    /\ calendar = BaseCalendar /\ trips = WalkTrips

\* the stop-time table is one long trip
MaxGap == 33

\* a trip whose first stop is station 7, at 07:15:00, and which reaches
\* Melbourne Central after n other stops
LongTrip(t, n) ==
    <<StopTime(t, Time(7, 15, 0), Time(7, 15, 0), 7, 1)>>
        \o [k \in 1..n |-> StopTime(t, Time(7, 16, 0), Time(7, 16, 0), 200 + k, k + 1)]
        \o <<StopTime(t, Time(8, 30, 0), Time(8, 30, 0), MC, n + 2)>>

\* the number of stops between station 7 and Melbourne Central varies, and
\* the table ends with the trip or goes on with the first row of trip 3
InitBound ==
    /\ Start
    /\ content = BaseContent /\ data = BaseData
    /\ stops = StopsWithMC
    /\ \E n \in 0..MaxGap :
           \E tail \in {<<>>, ShortTail} :
               stop_times = LongTrip(11, n) \o tail
    /\ recs = BaseRecs /\ pages = BasePages
    /\ calendar = BaseCalendar /\ trips = WalkTrips

InitRouter ==
    /\ Start
    /\ \/ /\ content = BaseContent /\ data = BaseData
          /\ stops = BaseStops
          /\ stop_times \in SeqsUpTo(RowDomain, MaxRows)
                              \cup {BaseStopTimes, ThreeStopTrip}
       \/ /\ content = <<JsonRec(1, -37, 144), JsonRec(2, -37, 145)>> /\ data = <<>>
          /\ stops = BaseStops
          /\ stop_times \in {TwentyMinuteTrip, BaseStopTimes}
       \/ /\ content = BaseContent /\ data = BaseData
          /\ stops = StopsWithMC
          /\ stop_times = BaseStopTimes
    /\ recs = BaseRecs /\ pages = BasePages
    /\ calendar = BaseCalendar /\ trips = BaseTrips

Init == InitFeeds \/ InitGeo \/ InitStations \/ InitPages \/ InitLga \/ InitRouter
            \/ InitWalk \/ InitWindow \/ InitBound

Spec == Init /\ [][Next]_vars
SpecFeeds == InitFeeds /\ [][Next]_vars
SpecGeo == InitGeo /\ [][Next]_vars
SpecStations == InitStations /\ [][Next]_vars
SpecPages == InitPages /\ [][Next]_vars
SpecLga == InitLga /\ [][Next]_vars
SpecRouter == InitRouter /\ [][Next]_vars
SpecWalk == InitWalk /\ [][Next]_vars
SpecWindow == InitWindow /\ [][Next]_vars
SpecBound == InitBound /\ [][Next]_vars

(***************************************************************************)
(* Properties.                                                             *)
(***************************************************************************)
AfterDuplicates == pc \notin {"concat", "drop_duplicates"}
AfterSuburbs == pc \notin {"concat", "drop_duplicates", "defaults", "polygons", "suburb"}
AfterStations == AfterSuburbs /\ pc \notin {"pdf", "lga", "lga_fix", "nearest"}
AfterFlags == pc \in {"covid", "export", "done"}

FirstWith(rows, id) ==
    CHOOSE f \in 1..Len(rows) :
        /\ rows[f].property_id = id
        /\ \A g \in 1..(f - 1) : rows[g].property_id # id

\* C1: once the feeds are concatenated and de-duplicated, and up to the export,
\* no property identifier occurs in two records, every identifier of the input
\* has a record, and the record kept for an identifier is the first one the
\* concatenated feeds hold for it.
C1_OneRecordPerIdentifier ==
    AfterDuplicates =>
        /\ \A p, q \in 1..Len(clean_data) :
               p # q => clean_data[p].property_id # clean_data[q].property_id
        /\ {clean_data[p].property_id : p \in 1..Len(clean_data)}
               = {combined_data[p].property_id : p \in 1..Len(combined_data)}
        /\ \A p \in 1..Len(clean_data) :
               LET first == combined_data[FirstWith(combined_data, clean_data[p].property_id)]
               IN /\ ToNumeric(first.lat) = ToNumeric(clean_data[p].lat)
                  /\ ToNumeric(first.lng) = ToNumeric(clean_data[p].lng)
                  /\ first.addr_street = clean_data[p].addr_street

\* C2: the run never ends on a read past the end of the stop-time table (nor
\* on any other exception), and once the loop over the properties is over
\* every row's station id has an entry in trip_dict, an integer or
\* "not available".
C2_RouterNeverAborts ==
    /\ pc # "abort"
    /\ pc \in {"fill_in", "to_frame", "flag", "covid", "export", "done"} =>
           \A i \in 1..Len(cd_np) :
               /\ Str(cd_np[i].closest_train_station_id) \in DOMAIN trip_dict
               /\ LET e == trip_dict[Str(cd_np[i].closest_train_station_id)]
                  IN e.t = "int" \/ e = PyStr(NotAvailable)

\* strictly inside the rectangle, the point being at longitude lon, latitude lat
StrictlyInside(poly, lat, lon) ==
    poly.x1 < lon /\ lon < poly.x2 /\ poly.y1 < lat /\ lat < poly.y2

\* C3: the suburb given to a property is the name of the first polygon of
\* suburb_polygons, in its order, that strictly contains the property's point,
\* and is "not available" when no polygon contains it.
C3_FirstContainingPolygon ==
    AfterSuburbs =>
        \A i \in 1..Len(clean_data) :
            LET lat == clean_data[i].lat.n
                lon == clean_data[i].lng.n
                inside == {q \in 1..Len(suburb_polygons) :
                              StrictlyInside(suburb_polygons[q][2], lat, lon)}
            IN IF inside = {} THEN clean_data[i].suburb = NotAvailable
               ELSE \E q \in inside :
                       /\ \A h \in inside : q <= h
                       /\ clean_data[i].suburb = suburb_polygons[q][1]

\* a property inside two polygons of different names, and one outside all
C3_Witness ==
    /\ pc = "pdf"
    /\ \E i \in 1..Len(clean_data) :
           \E q, h \in 1..Len(suburb_polygons) :
               /\ q < h
               /\ suburb_polygons[q][1] # suburb_polygons[h][1]
               /\ StrictlyInside(suburb_polygons[q][2], clean_data[i].lat.n, clean_data[i].lng.n)
               /\ StrictlyInside(suburb_polygons[h][2], clean_data[i].lat.n, clean_data[i].lng.n)
               /\ clean_data[i].suburb = suburb_polygons[q][1]
    /\ \E i \in 1..Len(clean_data) :
           /\ clean_data[i].suburb = NotAvailable
           /\ \A q \in 1..Len(suburb_polygons) :
                  ~StrictlyInside(suburb_polygons[q][2], clean_data[i].lat.n, clean_data[i].lng.n)

\* the angular distance of row i of clean_data to station k
DistTo(i, k) ==
    Haversine(clean_data[i].lat.n, clean_data[i].lng.n, stops[k].stop_lat, stops[k].stop_lon)

\* C4: for a property with a station within the initial threshold, the stored
\* station is the first one, in the order of the station table, whose distance
\* is the least over all stations, and the stored distance is that least
\* distance times 6378.
C4_NearestStation ==
    AfterStations =>
        \A i \in 1..Len(clean_data) :
            (\E k \in 1..Len(stops) : DistTo(i, k) < InitialMinDist) =>
                \E k \in 1..Len(stops) :
                    /\ \A l \in 1..Len(stops) : DistTo(i, k) <= DistTo(i, l)
                    /\ \A l \in 1..(k - 1) : DistTo(i, k) < DistTo(i, l)
                    /\ clean_data[i].closest_train_station_id = PyInt(stops[k].stop_id)
                    /\ clean_data[i].distance_to_closest_train_station
                           = PyInt(DistTo(i, k) * 6378)

\* a property with two stations of different ids at the least distance, the
\* earlier of them not the first row of the table
C4_Witness ==
    /\ pc = "service_list"
    /\ \E i \in 1..Len(clean_data) :
           \E k, l \in 1..Len(stops) :
               /\ 1 < k /\ k < l
               /\ stops[k].stop_id # stops[l].stop_id
               /\ DistTo(i, k) = DistTo(i, l)
               /\ DistTo(i, k) < DistTo(i, 1)
               /\ \A z \in 1..Len(stops) : DistTo(i, k) <= DistTo(i, z)
               /\ clean_data[i].closest_train_station_id = PyInt(stops[k].stop_id)

\* rows i and d of st_np are the origin and the destination of one qualifying
\* trip: a weekday trip, the origin departing in the morning window, the rows
\* from i to d all of that trip with increasing sequence numbers, and row d at
\* Melbourne Central
QualifyingPair(i, d) ==
    /\ i < d
    /\ st_np[i].trip_id \in trip_set
    /\ st_np[i].departure_time.h \in {7, 8}
    /\ st_np[d].stop_id = MC
    /\ \A r \in i..(d - 1) :
           /\ st_np[r + 1].trip_id = st_np[i].trip_id
           /\ st_np[r + 1].stop_sequence > st_np[r].stop_sequence
           /\ r > i => st_np[r].stop_id # MC

\* row i is the only row of its station
OnlyRowOfStation(i) ==
    \A r \in 1..Len(st_np) : st_np[r].stop_id = st_np[i].stop_id => r = i

LastTraversed == IF traversed = <<>> THEN "" ELSE traversed[Len(traversed)]

\* C5: a station served by a single qualifying trip gets, as its travel time,
\* the arrival time at the destination minus the departure time at the origin
\* in minutes; for the trip with sequence numbers 1, 2, 3, departure 07:15:00
\* and arrival 07:42:00 that is 27.
C5_SingleTripTravelTime ==
    /\ \A i, d \in 1..Len(st_np) :
           (st_np[i].stop_id # MC /\ OnlyRowOfStation(i) /\ QualifyingPair(i, d)) =>
               LET s == IntToStr(st_np[i].stop_id)
               IN /\ ~(pc = "abort" /\ LastTraversed = s)
                  /\ s \in DOMAIN trip_dict =>
                         /\ trip_dict[s].t = "int"
                         /\ 60 * trip_dict[s].n
                                = SecondOfDay(st_np[d].arrival_time)
                                    - SecondOfDay(st_np[i].departure_time)
    /\ st_np = ThreeStopTrip =>
           /\ pc # "abort"
           /\ "7" \in DOMAIN trip_dict => trip_dict["7"] = PyInt(27)

\* C6: with two properties, station 7 nearest the first and station 8 nearest
\* the second, one weekday trip from station 7 to Melbourne Central taking 20
\* minutes and no trip from station 8, the run ends with the first property at
\* (station 7, 20 minutes, flag 1) and the second at (station 8,
\* "not available", flag 0).
C6_EndToEnd ==
    (/\ content = <<JsonRec(1, -37, 144), JsonRec(2, -37, 145)>>
     /\ data = <<>>
     /\ stops = BaseStops
     /\ stop_times = TwentyMinuteTrip) =>
        /\ pc # "abort"
        /\ pc = "done" =>
               /\ Len(exported) = 2
               /\ exported[1].closest_train_station_id = PyInt(7)
               /\ exported[1].travel_min_to_MC = PyInt(20)
               /\ exported[1].direct_journey_flag = PyInt(1)
               /\ exported[2].closest_train_station_id = PyInt(8)
               /\ exported[2].travel_min_to_MC = PyStr(NotAvailable)
               /\ exported[2].direct_journey_flag = PyInt(0)

\* C7: after the flags are derived every flag is -1, 0 or 1; it is 0 exactly
\* when the travel time is "not available", 1 exactly when the travel time is
\* a number, and -1 exactly when the travel time is still the default "-1".
C7_FlagFromTravelTime ==
    AfterFlags =>
        \A i \in 1..Len(clean_data) :
            LET flag == Str(clean_data[i].direct_journey_flag)
                travel == clean_data[i].travel_min_to_MC
            IN /\ flag \in {"-1", "0", "1"}
               /\ flag = "0" <=> travel = PyStr(NotAvailable)
               /\ flag = "1" <=> travel.t = "int"
               /\ flag = "-1" <=> travel = PyStr("-1")

\* at the end of a run, a property with no direct journey, one with a travel
\* time above 0 and one with travel time 0
C7_Witness ==
    /\ pc = "done"
    /\ \E i \in 1..Len(clean_data) :
           /\ clean_data[i].travel_min_to_MC = PyStr(NotAvailable)
           /\ clean_data[i].direct_journey_flag = PyInt(0)
    /\ \E i \in 1..Len(clean_data) :
           /\ clean_data[i].travel_min_to_MC.t = "int"
           /\ clean_data[i].travel_min_to_MC.n > 0
           /\ clean_data[i].direct_journey_flag = PyInt(1)
    /\ \E i \in 1..Len(clean_data) :
           /\ clean_data[i].travel_min_to_MC = PyInt(0)
           /\ clean_data[i].direct_journey_flag = PyInt(1)

\* C8: a property whose station id is still the default "0" ends the run with
\* travel_min_to_MC still "-1" and direct_journey_flag still -1, and the loop
\* over the properties, the fill-in and the flag derivation leave both alone.
C8_UnresolvedKeepsDefaults ==
    AfterStations =>
        /\ \A i \in 1..Len(clean_data) :
               clean_data[i].closest_train_station_id = PyStr("0") =>
                   /\ clean_data[i].travel_min_to_MC = PyStr("-1")
                   /\ Str(clean_data[i].direct_journey_flag) = "-1"
        /\ \A i \in 1..Len(cd_np) :
               cd_np[i].closest_train_station_id = PyStr("0") =>
                   /\ cd_np[i].travel_min_to_MC = PyStr("-1")
                   /\ Str(cd_np[i].direct_journey_flag) = "-1"

NoRepeat(q) == \A a, b \in 1..Len(q) : a # b => q[a] # q[b]

\* C9: the traversal of the stop-time table is run at most once for a station
\* id, only for an id with no stored entry, and a stored entry is never
\* changed or removed; a property whose station id has an entry takes that
\* entry as it is.
C9_TraversedOncePerStation ==
    [][/\ NoRepeat(traversed')
       /\ traversed' # traversed =>
              /\ traversed' = Append(traversed, Str(cd_np[j].closest_train_station_id))
              /\ Str(cd_np[j].closest_train_station_id) \notin DOMAIN trip_dict
       /\ pc = "router" =>
              \A s \in DOMAIN trip_dict :
                  s \in DOMAIN trip_dict' /\ trip_dict'[s] = trip_dict[s]
       /\ pc = "fill_in" =>
              \A i \in 1..Len(cd_np) :
                  cd_np'[i].travel_min_to_MC
                      = trip_dict[Str(cd_np[i].closest_train_station_id)]]_vars

\* the run is over, two properties share a station id, and the traversal was
\* run once for it
C9_Witness ==
    /\ pc = "done"
    /\ \E a, b \in 1..Len(cd_np) :
           /\ a # b
           /\ cd_np[a].closest_train_station_id = cd_np[b].closest_train_station_id
           /\ \E p \in 1..Len(traversed) :
                  traversed[p] = Str(cd_np[a].closest_train_station_id)
           /\ cd_np[a].travel_min_to_MC.t = "int"

Mismatched(pg) == Len(pg.LGA) # Len(pg.suburbs)

\* C10: a page with a number of region headers different from its number of
\* bracketed groups leaves LGA_dict as it was and prints one warning, and the
\* loop goes on to the next page.
C10_MismatchedPageSkipped ==
    [][(pc = "pdf" /\ page <= Len(pages) /\ Mismatched(pages[page])) =>
           /\ LGA_dict' = LGA_dict
           /\ warnings' = warnings + 1
           /\ page' = page + 1
           /\ pc' = "pdf"
           /\ error' = "none"]_vars

\* every page was read, a mismatched page lay between two pages that
\* contributed, and the entries of both are in LGA_dict
C10_Witness ==
    /\ pc = "lga"
    /\ Len(pages) = 3
    /\ ~Mismatched(pages[1]) /\ Mismatched(pages[2]) /\ ~Mismatched(pages[3])
    /\ Len(pages[1].LGA) > 0 /\ Len(pages[3].LGA) > 0
    /\ pages[1].LGA[1] # pages[3].LGA[1]
    /\ warnings = 1
    /\ {pages[1].LGA[1], pages[3].LGA[1]} \subseteq DictKeys(LGA_dict)
    /\ pages[2].LGA[1] \notin DictKeys(LGA_dict)

\* the page's counts agree
Matched(pg) == Len(pg.LGA) = Len(pg.suburbs)

\* C11: a page with n region headers and n bracketed groups makes LGA_dict
\* grow by n entries, the i-th header mapped to the list of the names of the
\* i-th group, and the entries LGA_dict held before stay as they were.
C11_EqualCountsAddEntries ==
    [][(pc = "pdf" /\ page <= Len(pages) /\ Matched(pages[page])) =>
           LET pg == pages[page]
           IN /\ Len(LGA_dict') = Len(LGA_dict) + Len(pg.LGA)
              /\ \A i \in 1..Len(pg.LGA) :
                     \E e \in 1..Len(LGA_dict') :
                         LGA_dict'[e] = <<pg.LGA[i], pg.suburbs[i]>>
              /\ \A e \in 1..Len(LGA_dict) : LGA_dict'[e] = LGA_dict[e]]_vars

\* the entries of LGA_dict one of whose names equals the suburb, case aside
MatchingEntries(suburb) ==
    {e \in 1..Len(LGA_dict) :
        \E q \in 1..Len(LGA_dict[e][2]) : Lower(LGA_dict[e][2][q]) = Lower(suburb)}

\* C12: right after the region lookup, a property whose suburb is listed in
\* LGA_dict has the region of the first entry, in the order of LGA_dict, that
\* lists it.
C12_FirstMatchingRegion ==
    pc = "lga_fix" =>
        \A i \in 1..Len(clean_data) :
            LET hits == MatchingEntries(clean_data[i].suburb)
            IN hits # {} =>
                   \E e \in hits :
                       /\ \A h \in hits : e <= h
                       /\ clean_data[i].Lga = LGA_dict[e][1]

\* the group of names the PDF gives a region: that of the last place, among
\* the pages whose counts agree, where the region is a header
GroupOf(region) ==
    LET places == {pl \in (1..Len(pages)) \X (1..2) :
                      /\ Matched(pages[pl[1]])
                      /\ pl[2] <= Len(pages[pl[1]].LGA)
                      /\ pages[pl[1]].LGA[pl[2]] = region}
        last == CHOOSE pl \in places :
                    \A o \in places : o[1] < pl[1] \/ (o[1] = pl[1] /\ o[2] <= pl[2])
    IN pages[last[1]].suburbs[last[2]]

\* the region lists the suburb, case aside
Lists(region, suburb) ==
    \E q \in 1..Len(GroupOf(region)) : Lower(GroupOf(region)[q]) = Lower(suburb)

\* C13: right after the region lookup, which raises no error, a property's
\* region is "not available" exactly when no region of the PDF lists the
\* property's suburb, and is otherwise a region that lists it.
C13_SentinelIffNoRegionLists ==
    /\ pc \in {"lga", "lga_fix"} => error = "none"
    /\ pc = "lga_fix" =>
           \A i \in 1..Len(clean_data) :
               LET row == clean_data[i]
               IN /\ row.Lga = NotAvailable <=>
                         \A r \in DictKeys(LGA_dict) : ~Lists(r, row.suburb)
                  /\ row.Lga # NotAvailable =>
                         /\ row.Lga \in DictKeys(LGA_dict)
                         /\ Lists(row.Lga, row.suburb)

\* no station lies within the initial threshold of row i of clean_data
NoStationWithinThreshold(i) ==
    \A k \in 1..Len(stops) : DistTo(i, k) >= InitialMinDist

\* C18: a property with every station at or beyond the initial threshold, or
\* with an empty station table, keeps the defaults "0" and "0" for its station
\* id and distance, whatever was found for the properties before it, and the
\* search raises no error.
C18_ThresholdKeepsDefaults ==
    /\ pc = "service_list" => error = "none"
    /\ AfterStations =>
           \A i \in 1..Len(clean_data) :
               NoStationWithinThreshold(i) =>
                   /\ clean_data[i].closest_train_station_id = PyStr("0")
                   /\ clean_data[i].distance_to_closest_train_station = PyStr("0")

\* the search is over, the station table is not empty, a property got a
\* station and a later property, beyond the threshold of every station, kept
\* the defaults
C18_Witness ==
    /\ pc = "service_list"
    /\ stops # <<>>
    /\ \E a, b \in 1..Len(clean_data) :
           /\ a < b
           /\ clean_data[a].closest_train_station_id.t = "int"
           /\ NoStationWithinThreshold(b)
           /\ clean_data[b].closest_train_station_id = PyStr("0")
           /\ clean_data[b].distance_to_closest_train_station = PyStr("0")

\* the stations the loop In[25] has stored an entry for
Stored == DOMAIN trip_dict \ {"19842"}

\* what the loop over st_np computed for station s
Recorded(s) == Traverse(s, st_np, mc_trips)

\* the seconds from the departure of row p[1] to the arrival of row p[2],
\* within one day
Elapsed(p) ==
    (SecondOfDay(st_np[p[2]].arrival_time) - SecondOfDay(st_np[p[1]].departure_time))
        % 86400

RECURSIVE SumElapsed(_)
SumElapsed(ps) ==
    IF ps = {} THEN 0
    ELSE LET p == CHOOSE q \in ps : TRUE
         IN Elapsed(p) + SumElapsed(ps \ {p})

Abs(x) == IF x < 0 THEN -x ELSE x

AsMidnight(st) ==
    [i \in 1..Len(st) |->
        IF st[i].arrival_time.h = 24
        THEN StopTime(st[i].trip_id,
                      Time(0, st[i].arrival_time.m, st[i].arrival_time.s),
                      st[i].departure_time, st[i].stop_id, st[i].stop_sequence)
        ELSE st[i]]

\* C15: the normalization turns each arrival time "24:MM:SS" into "00:MM:SS"
\* and changes nothing else, so that every station gets the travel time the
\* table written with "00:MM:SS" gives it; from then on no arrival time has
\* hour 24, and neither time of a recorded pair has.
C15_Hour24Normalized ==
    /\ [][pc = "normalize" =>
             /\ stop_times' = AsMidnight(stop_times)
             /\ \A i \in 1..Len(clean_data) :
                    LET s == Str(clean_data[i].closest_train_station_id)
                    IN Traverse(s, stop_times', mc_trips)
                           = Traverse(s, AsMidnight(stop_times), mc_trips)]_vars
    /\ [](pc \notin {"concat", "drop_duplicates", "defaults", "polygons", "suburb",
                      "pdf", "lga", "lga_fix", "nearest", "service_list", "trip_set",
                      "mc_trips", "normalize"} =>
              /\ \A i \in 1..Len(stop_times) : stop_times[i].arrival_time.h # 24
              /\ \A i \in 1..Len(st_np) : st_np[i].arrival_time.h # 24
              /\ \A s \in Stored : \A p \in Recorded(s).pairs :
                     /\ st_np[p[2]].arrival_time.h # 24
                     /\ st_np[p[1]].departure_time.h # 24)

\* the run is over and station 7 has the travel time of one trip that left
\* at 07:15:00 and arrived at "24:05:00": 1010 minutes, as for "00:05:00"
C15_Witness ==
    /\ pc = "done"
    /\ "7" \in Stored
    /\ trip_dict["7"] = PyInt(1010)
    /\ \E p \in Recorded("7").pairs :
           /\ st_np[p[2]].arrival_time = Time(0, 5, 0)
           /\ st_np[p[2]].departure_time = Time(24, 5, 0)
           /\ st_np[p[1]].departure_time = Time(7, 15, 0)

\* row i of st_np is a matching origin stop event of station s
MatchingOrigin(s, i) ==
    /\ IntToStr(st_np[i].stop_id) = s
    /\ st_np[i].trip_id \in mc_trips
    /\ st_np[i].departure_time.h \in {7, 8}

\* going forward from row i, within the scan bound, the sequence number
\* decreases before a row of the destination station is met
DecreaseBeforeDestination(i) ==
    \E r \in (i + 1)..Len(st_np) :
        /\ r - i < ScanBound
        /\ r - 1 > i
        /\ st_np[r].stop_sequence < st_np[r - 1].stop_sequence
        /\ \A q \in (i + 1)..(r - 1) : st_np[q].stop_id # MC

\* C16: a walk from a matching origin stop event that meets a decrease of the
\* sequence number before it meets the destination station adds no trip and
\* no minutes to the station's totals.
C16_DecreaseContributesNothing ==
    \A s \in Stored :
        \A i \in 1..Len(st_np) :
            (MatchingOrigin(s, i) /\ DecreaseBeforeDestination(i)) =>
                \A p \in Recorded(s).pairs : p[1] # i

C19_WalkStaysInTrip ==
    \A s \in Stored :
        \A p \in Recorded(s).pairs :
            \A r \in p[1]..p[2] : st_np[r].trip_id = st_np[p[1]].trip_id

\* C20: a matching origin stop event has at most one recorded pair, so that
\* the number of trips recorded for a station is at most the number of its
\* matching origin stop events.
C20_OneTripPerOrigin ==
    \A s \in Stored :
        /\ \A i \in 1..Len(st_np) :
               Cardinality({p \in Recorded(s).pairs : p[1] = i}) <= 1
        /\ Recorded(s).number_trips
               <= Cardinality({i \in 1..Len(st_np) : MatchingOrigin(s, i)})

\* row d is the first row of the destination station after row i, the rows
\* from i to d are of one trip and their sequence numbers increase
FirstDestination(i, d) ==
    /\ i < d /\ d <= Len(st_np)
    /\ st_np[d].stop_id = MC
    /\ \A r \in (i + 1)..(d - 1) : st_np[r].stop_id # MC
    /\ \A r \in (i + 1)..d :
           /\ st_np[r].trip_id = st_np[i].trip_id
           /\ st_np[r].stop_sequence > st_np[r - 1].stop_sequence

\* C21: the walk from a matching origin stop event records the destination
\* when it lies at most 32 rows after the origin row, and the travel time is
\* stored; it records nothing from a destination that first appears more
\* than 32 rows after the origin row, and the traversal of such a station
\* does not fail.
C21_ThirtyTwoStopBound ==
    \A i, d \in 1..Len(st_np) :
        LET s == IntToStr(st_np[i].stop_id)
        IN (MatchingOrigin(s, i) /\ FirstDestination(i, d)) =>
               IF d - i <= 32
               THEN /\ ~(pc = "abort" /\ LastTraversed = s)
                    /\ s \in Stored => <<i, d>> \in Recorded(s).pairs
               ELSE /\ ~(pc = "abort" /\ LastTraversed = s)
                    /\ s \in Stored => <<i, d>> \notin Recorded(s).pairs

AfterLgaFix ==
    pc \in {"nearest", "service_list", "trip_set", "mc_trips", "normalize", "to_numpy",
            "trip_dict", "router", "fill_in", "to_frame", "flag", "covid", "export",
            "done"}

\* C24: the name-correction step gives the region "STRATHBOGIE" to every
\* property whose region was "TRATHBOGIE" and leaves every other region and
\* every other field of every property as it was, and after the step no
\* property has the region "TRATHBOGIE".
C24_NameCorrected ==
    /\ [][pc = "lga_fix" =>
             /\ Len(clean_data') = Len(clean_data)
             /\ \A i \in 1..Len(clean_data) :
                    clean_data'[i] =
                        IF clean_data[i].Lga = "TRATHBOGIE"
                        THEN [clean_data[i] EXCEPT !.Lga = "STRATHBOGIE"]
                        ELSE clean_data[i]]_vars
    /\ [](AfterLgaFix =>
             /\ \A i \in 1..Len(clean_data) : clean_data[i].Lga # "TRATHBOGIE"
             /\ \A i \in 1..Len(cd_np) : cd_np[i].Lga # "TRATHBOGIE")

\* the step is over, the misread header lists a suburb of one property and
\* was the last to do so; that property has the corrected name and another
\* property has kept the region the lookup gave it
C24_Witness ==
    /\ pc = "nearest"
    /\ "TRATHBOGIE" \in DictKeys(LGA_dict)
    /\ \E p, q \in 1..Len(clean_data) :
           /\ clean_data[p].Lga = "STRATHBOGIE"
           /\ clean_data[q].Lga \in DictKeys(LGA_dict) \ {"TRATHBOGIE"}

\* the origin rows of the pairs recorded for station s
Origins(s) == {p[1] : p \in Recorded(s).pairs}

\* the hour of an "HH:MM:SS" time is 7 or 8
SevenOrEight(t) == t.h \in {7, 8}

\* the row after row i is the call of the same trip at Melbourne Central
DestinationNext(i) ==
    /\ i + 1 <= Len(st_np)
    /\ st_np[i + 1].trip_id = st_np[i].trip_id
    /\ st_np[i + 1].stop_id = MC
    /\ st_np[i + 1].stop_sequence > st_np[i].stop_sequence

\* C22: an origin row adds to the totals of a station only if the hour of its
\* departure time is 7 or 8, whatever its arrival time: a call of a counted
\* trip at the station that departs in hour 7 or 8 and is followed by the
\* trip's call at the destination is recorded, and one that departs at
\* 06:59:59 or before, or at 09:00:00 or after, never is.
C22_DepartureHourWindow ==
    \A s \in Stored :
        LET pairs == Recorded(s).pairs
        IN /\ \A p \in pairs :
                  /\ SevenOrEight(st_np[p[1]].departure_time)
                  /\ SecondOfDay(st_np[p[1]].departure_time) >= 7 * 3600
                  /\ SecondOfDay(st_np[p[1]].departure_time) < 9 * 3600
           /\ \A i \in 1..Len(st_np) :
                  (/\ IntToStr(st_np[i].stop_id) = s
                   /\ st_np[i].trip_id \in mc_trips
                   /\ DestinationNext(i)
                   /\ SevenOrEight(st_np[i].departure_time))
                      => <<i, i + 1>> \in pairs

\* the run is over; one call at station 7 arrived in hour 6, left at 07:00:00
\* and is counted, another arrived in hour 8, left at 09:00:00 and is not
C22_Witness ==
    /\ pc = "done"
    /\ "7" \in Stored
    /\ LET origins == Origins("7")
       IN \E i, k \in 1..Len(st_np) :
              /\ st_np[i].arrival_time.h = 6 /\ st_np[i].departure_time = Time(7, 0, 0)
              /\ DestinationNext(i)
              /\ i \in origins
              /\ st_np[k].stop_id = 7 /\ st_np[k].trip_id \in mc_trips
              /\ st_np[k].arrival_time.h = 8 /\ st_np[k].departure_time = Time(9, 0, 0)
              /\ DestinationNext(k)
              /\ k \notin origins

\* the service of trip t in trips.txt has all five weekday flags set in
\* calendar.txt
RunsEveryWeekday(t) ==
    \E a \in 1..Len(trips) : \E c \in 1..Len(calendar) :
        /\ trips[a].trip_id = t
        /\ calendar[c].service_id = trips[a].service_id
        /\ calendar[c].monday = 1 /\ calendar[c].tuesday = 1
        /\ calendar[c].wednesday = 1 /\ calendar[c].thursday = 1
        /\ calendar[c].friday = 1

\* trip t has a row at the destination station
CallsAtDestination(t) ==
    \E r \in 1..Len(st_np) : st_np[r].trip_id = t /\ st_np[r].stop_id = MC

ArrivesEarlier(p) ==
    SecondOfDay(st_np[p[2]].arrival_time) < SecondOfDay(st_np[p[1]].departure_time)

\* C26: what a recorded pair of rows adds to the total of a station is the
\* arrival time of day minus the departure time of day modulo 24 hours, at
\* least 0 and less than 1440 minutes also when the arrival is the earlier of
\* the two, and every integer stored as a travel time is between 0 and 1440.
C26_ElapsedWithinOneDay ==
    \A s \in Stored :
        LET r == Recorded(s)
        IN /\ r.number_trips = Cardinality(r.pairs)
           /\ r.time_total = SumElapsed(r.pairs)
           /\ r.time_total >= 0
           /\ r.time_total <= (1440 * 60 - 1) * r.number_trips
           /\ trip_dict[s].t = "int" => trip_dict[s].n \in 0..1440

\* the run is over and the one trip counted for station 7 left at 07:15:00
\* and reached the destination at 07:14:30: 1439.5 minutes, stored as 1440
C26_Witness ==
    /\ pc = "done"
    /\ "7" \in Stored
    /\ \E p \in Recorded("7").pairs :
           /\ ArrivesEarlier(p)
           /\ st_np[p[2]].arrival_time.h # 0
           /\ Recorded("7").pairs = {p}
    /\ trip_dict["7"] = PyInt(1440)

\* records a and b have the same nearest station
SameStation(a, b) ==
    Str(a.closest_train_station_id) = Str(b.closest_train_station_id)

\* C25: in the exported table two properties with the same nearest-station
\* id have the same travel time and the same direct-journey flag, and the
\* fill-in step leaves every field of a record other than the travel time
\* as it was.
C25_SameStationSameTravel ==
    /\ [](pc = "done" =>
             \A a, b \in 1..Len(exported) :
                 SameStation(exported[a], exported[b]) =>
                     /\ exported[a].travel_min_to_MC = exported[b].travel_min_to_MC
                     /\ exported[a].direct_journey_flag = exported[b].direct_journey_flag)
    /\ [][pc = "fill_in" =>
             /\ Len(cd_np') = Len(cd_np)
             /\ \A i \in 1..Len(cd_np) :
                    cd_np'[i] = [cd_np[i] EXCEPT !.travel_min_to_MC =
                                                    cd_np'[i].travel_min_to_MC]]_vars

\* the run is over; two properties share a station and have its travel
\* time, a number of minutes, and a third property has another station
C25_Witness ==
    /\ pc = "done"
    /\ \E a, b, c \in 1..Len(exported) :
           /\ a # b
           /\ SameStation(exported[a], exported[b])
           /\ ~SameStation(exported[a], exported[c])
           /\ exported[a].travel_min_to_MC.t = "int"
           /\ exported[a].travel_min_to_MC = trip_dict[Str(exported[a].closest_train_station_id)]
           /\ exported[b].travel_min_to_MC = exported[a].travel_min_to_MC
           /\ exported[c].travel_min_to_MC # exported[a].travel_min_to_MC

====
